---- MODULE Spec2Model ----
(***************************************************************************)
(* A model of scripts/teacher_qr_gen.py: the DeltaQRGenerator pipeline     *)
(* (compress_delta, chunk_payload, create_chunk_metadata,                  *)
(* generate_qr_sequence), the command line driver main(), and the          *)
(* receiving side (the Assembler of spec section 4.5, which the script     *)
(* does not contain).                                                      *)
(*                                                                         *)
(* Bytes are integers 0..255 and byte strings are sequences of them.       *)
(* Library code is modelled by what it does to the bytes:                  *)
(*   json.dumps / json.loads  on insertion-ordered dicts str -> int,       *)
(*   gzip.compress            as a gzip member: the 10 byte header with    *)
(*                            the MTIME field, a DEFLATE stream made of    *)
(*                            one stored block, and the 8 byte trailer,    *)
(*   base64.b64encode         exactly (3 bytes -> 4 characters, padding),  *)
(*   hashlib.sha256           as a deterministic 16 hex digit digest       *)
(*                            prefix (collisions are possible, as they     *)
(*                            are for any truncated digest).               *)
(***************************************************************************)
EXTENDS Integers, Sequences, FiniteSets, TLC

\* --------------------------------------------------------------- bounds

\* The wall clock runs from 0 to MaxTime seconds.
MaxTime == 1

\* Batch directories hold at most MaxFiles files.
MaxFiles == 2

\* Directly chunked buffers have at most MaxBufLen bytes, and the chunk
\* sizes tried on them run up to MaxChunk.
MaxBufLen == 4

MaxChunk == 4

\* The receiver scans a file it has scanned before at most MaxRescans times.
MaxRescans == 1

\* ------------------------------------------------------ program constants

DEFAULT_CHUNK_SIZE == 2048

\* main(): "if args.chunk_size > 3000"
QrCapacityLimit == 3000

\* hexdigest()[:8] of a chunk, hexdigest()[:16] of the whole buffer
ChunkHashLen == 8

DeltaHashLen == 16

\* ------------------------------------------------------------ byte tools

Min(a, b) == IF a <= b THEN a ELSE b

\* Python's // (floor division), also for a negative divisor.
PyFloorDiv(a, b) ==
    IF b > 0 THEN a \div b ELSE (0 - a) \div (0 - b)

\* Python's slice index rule: a negative index counts from the end, and the
\* result is clipped to 0..n.
SliceIndex(i, n) ==
    LET j == IF i < 0 THEN i + n ELSE i
    IN  IF j < 0 THEN 0 ELSE Min(j, n)

\* Python's s[start:end] (0-based, end exclusive).
Slice(s, start, end) ==
    LET a == SliceIndex(start, Len(s))
        e == SliceIndex(end, Len(s))
    IN  IF a >= e THEN << >> ELSE SubSeq(s, a + 1, e)

\* A 16 bit and a 32 bit little-endian field.
LE16(n) == << n % 256, (n \div 256) % 256 >>

LE32(n) == << n % 256, (n \div 256) % 256, (n \div 65536) % 256,
              (n \div 16777216) % 256 >>

FromLE16(s, i) == s[i] + 256 * s[i + 1]

FromLE32(s, i) == s[i] + 256 * s[i + 1] + 65536 * s[i + 2] + 16777216 * s[i + 3]

\* ---------------------------------------------------------------- sha256

\* One 16 bit lane of the digest: the position-weighted sum of the bytes
\* b[lo..hi], computed by halving the range.
RECURSIVE HashRange(_, _, _, _)
HashRange(b, m, lo, hi) ==
    IF lo > hi THEN 0
    ELSE IF lo = hi THEN ((b[lo] + 1) * (((lo * m) % 251) + 1)) % 65536
    ELSE LET mid == (lo + hi) \div 2
         IN  (HashRange(b, m, lo, mid) + HashRange(b, m, mid + 1, hi)) % 65536

HashLane(b, m) == (HashRange(b, m, 1, Len(b)) + m * (Len(b) + 1)) % 65536

Hex4(x) == << (x \div 4096) % 16, (x \div 256) % 16, (x \div 16) % 16, x % 16 >>

\* hashlib.sha256(b).hexdigest(): its hex digits 1..8 and 9..16 (as values
\* 0..15).
Sha256Head(b) == Hex4(HashLane(b, 31)) \o Hex4(HashLane(b, 37))

Sha256Next(b) == Hex4(HashLane(b, 41)) \o Hex4(HashLane(b, 43))

\* hashlib.sha256(chunk_data).hexdigest()[:8]
ChunkHash(b) == SubSeq(Sha256Head(b), 1, ChunkHashLen)

\* hashlib.sha256(compressed_payload).hexdigest()[:16]
DeltaHash(b) == SubSeq(Sha256Head(b) \o Sha256Next(b), 1, DeltaHashLen)

\* ------------------------------------------------------------------ json

\* A payload is a Python value handed to json.dumps.  A serializable one is
\* a dict with string keys and integer values, kept as the sequence of its
\* items <<key, value>> in insertion order (a key is the byte of its one
\* letter); an unserializable one stands for a value json.dumps rejects (a
\* set, an object, a cyclic structure).
Dict(items) == [serializable |-> TRUE, items |-> items]

Unserializable == [serializable |-> FALSE, items |-> << >>]

RECURSIVE JsonInt(_)
JsonInt(n) ==
    IF n < 10 THEN << 48 + n >> ELSE JsonInt(n \div 10) \o << 48 + (n % 10) >>

JsonItem(it) == << 34, it[1], 34, 58 >> \o JsonInt(it[2])

RECURSIVE JsonItems(_, _)
JsonItems(items, n) ==
    IF n = 0 THEN << >>
    ELSE IF n = 1 THEN JsonItem(items[1])
    ELSE JsonItems(items, n - 1) \o << 44 >> \o JsonItem(items[n])

\* json.dumps(delta_data, separators=(',', ':')).encode('utf-8')
JsonDumps(p) == << 123 >> \o JsonItems(p.items, Len(p.items)) \o << 125 >>

IsDigit(c) == c >= 48 /\ c <= 57

\* The end (exclusive index) of the digit run of s that starts at i.
RECURSIVE DigitsEnd(_, _)
DigitsEnd(s, i) ==
    IF i <= Len(s) /\ IsDigit(s[i]) THEN DigitsEnd(s, i + 1) ELSE i

RECURSIVE ParseInt(_, _, _)
ParseInt(s, i, j) ==
    IF j <= i THEN 0 ELSE 10 * ParseInt(s, i, j - 1) + (s[j - 1] - 48)

\* The result of a step that may fail: a value, or an error.
Ok(v) == [ok |-> TRUE, val |-> v, err |-> ""]

Err(e) == [ok |-> FALSE, val |-> << >>, err |-> e]

\* The items of s from index i on, s[i] being the opening quote of a key.
RECURSIVE ParseItems(_, _)
ParseItems(s, i) ==
    IF ~(i + 4 <= Len(s) /\ s[i] = 34 /\ s[i + 2] = 34 /\ s[i + 3] = 58
            /\ IsDigit(s[i + 4]))
    THEN Err("JSONDecodeError")
    ELSE LET j  == DigitsEnd(s, i + 4)
             it == << s[i + 1], ParseInt(s, i + 4, j) >>
         IN  IF j = Len(s) /\ s[j] = 125 THEN Ok(<< it >>)
             ELSE IF j < Len(s) /\ s[j] = 44
             THEN LET rest == ParseItems(s, j + 1)
                  IN  IF rest.ok THEN Ok(<< it >> \o rest.val) ELSE rest
             ELSE Err("JSONDecodeError")

\* json.loads of the bytes s: the payload, or an error.
JsonLoads(s) ==
    IF Len(s) < 2 \/ s[1] # 123 THEN Err("JSONDecodeError")
    ELSE IF Len(s) = 2
    THEN (IF s[2] = 125 THEN Ok(Dict(<< >>)) ELSE Err("JSONDecodeError"))
    ELSE LET r == ParseItems(s, 2)
         IN  IF r.ok THEN Ok(Dict(r.val)) ELSE r

\* ------------------------------------------------------------------ gzip

\* The CRC-32 field of the trailer: a checksum of the data (a 16 bit sum in
\* place of the CRC polynomial).
RECURSIVE ByteSum(_, _, _)
ByteSum(b, lo, hi) ==
    IF lo > hi THEN 0
    ELSE IF lo = hi THEN b[lo]
    ELSE LET mid == (lo + hi) \div 2
         IN  (ByteSum(b, lo, mid) + ByteSum(b, mid + 1, hi)) % 65536

Crc32(b) == ByteSum(b, 1, Len(b))

\* A DEFLATE stream of one final stored block: BFINAL/BTYPE, LEN, NLEN, data.
Deflate(data) ==
    << 1 >> \o LE16(Len(data)) \o LE16(65535 - Len(data)) \o data

\* The inverse of Deflate on the stream d.
Inflate(d) ==
    IF Len(d) < 5 \/ d[1] # 1 THEN Err("BadGzipFile")
    ELSE LET n == FromLE16(d, 2)
         IN  IF FromLE16(d, 4) # 65535 - n \/ Len(d) # 5 + n
             THEN Err("BadGzipFile")
             ELSE Ok(SubSeq(d, 6, 5 + n))

\* gzip.compress(json_bytes, compresslevel=9) called when the wall clock
\* reads mtime: ID1 ID2 CM FLG, MTIME (the default mtime=None writes
\* time.time()), XFL OS, the DEFLATE stream, CRC32, ISIZE.
GzipCompress(data, mtime) ==
    << 31, 139, 8, 0 >> \o LE32(mtime) \o << 2, 255 >> \o Deflate(data)
        \o LE32(Crc32(data)) \o LE32(Len(data))

\* gzip.decompress: MTIME is skipped, CRC32 and ISIZE are checked.
GzipDecompress(z) ==
    IF Len(z) < 18 \/ SubSeq(z, 1, 3) # << 31, 139, 8 >> THEN Err("BadGzipFile")
    ELSE LET r == Inflate(SubSeq(z, 11, Len(z) - 8))
         IN  IF ~r.ok THEN r
             ELSE IF FromLE32(z, Len(z) - 7) # Crc32(r.val)
                     \/ FromLE32(z, Len(z) - 3) # Len(r.val)
             THEN Err("BadGzipFile")
             ELSE r

\* ---------------------------------------------------------------- base64

\* The character of the 6 bit value v, and the padding character '='.
B64Char(v) ==
    IF v < 26 THEN 65 + v
    ELSE IF v < 52 THEN 97 + (v - 26)
    ELSE IF v < 62 THEN 48 + (v - 52)
    ELSE IF v = 62 THEN 43 ELSE 47

B64Pad == 61

\* The 6 bit value of the character c, -1 for a character outside the alphabet.
B64Value(c) ==
    IF c >= 65 /\ c <= 90 THEN c - 65
    ELSE IF c >= 97 /\ c <= 122 THEN c - 97 + 26
    ELSE IF c >= 48 /\ c <= 57 THEN c - 48 + 52
    ELSE IF c = 43 THEN 62
    ELSE IF c = 47 THEN 63 ELSE 0 - 1

\* The 4 characters of the group of up to 3 bytes of b that starts at i.
B64Group(b, i) ==
    LET n  == Len(b) - i + 1
        b1 == b[i]
        b2 == IF n >= 2 THEN b[i + 1] ELSE 0
        b3 == IF n >= 3 THEN b[i + 2] ELSE 0
    IN  << B64Char(b1 \div 4),
           B64Char((b1 % 4) * 16 + b2 \div 16),
           IF n >= 2 THEN B64Char((b2 % 16) * 4 + b3 \div 64) ELSE B64Pad,
           IF n >= 3 THEN B64Char(b3 % 64) ELSE B64Pad >>

\* base64.b64encode(compressed): character k belongs to group (k-1) div 4.
B64Encode(b) ==
    [k \in 1..(4 * ((Len(b) + 2) \div 3)) |->
        B64Group(b, 3 * ((k - 1) \div 4) + 1)[((k - 1) % 4) + 1]]

\* The number of padding characters that end s (at most 2).
B64Padding(s) ==
    IF Len(s) >= 1 /\ s[Len(s)] = B64Pad
    THEN (IF Len(s) >= 2 /\ s[Len(s) - 1] = B64Pad THEN 2 ELSE 1)
    ELSE 0

\* Byte r (0..2) of the group of 4 characters of s that starts at i.
B64Byte(s, i, r) ==
    LET v1 == B64Value(s[i])
        v2 == B64Value(s[i + 1])
        v3 == B64Value(s[i + 2])
        v4 == B64Value(s[i + 3])
    IN  IF r = 0 THEN v1 * 4 + v2 \div 16
        ELSE IF r = 1 THEN (v2 % 16) * 16 + v3 \div 4
        ELSE (v3 % 4) * 64 + v4

\* base64.b64decode(s): the length is a multiple of 4, and every character
\* before the padding is in the alphabet.
B64Decode(s) ==
    LET pad == B64Padding(s)
    IN  IF Len(s) % 4 # 0
           \/ \E k \in 1..(Len(s) - pad) : B64Value(s[k]) < 0
        THEN Err("binascii.Error")
        ELSE Ok([j \in 1..(3 * (Len(s) \div 4) - pad) |->
                    B64Byte(s, 4 * ((j - 1) \div 3) + 1, (j - 1) % 3)])

\* ------------------------------------------------------ DeltaQRGenerator

\* A wrong compress_delta: the exception is swallowed and nothing returned.
compress_delta_ReturnsEmpty(delta_data, mtime) ==
    IF ~delta_data.serializable THEN Ok(<< >>)
    ELSE Ok(B64Encode(GzipCompress(JsonDumps(delta_data), mtime)))

\* A wrong compress_delta: the base64 step is left out.
compress_delta_NoBase64(delta_data, mtime) ==
    IF ~delta_data.serializable THEN Err("RuntimeError")
    ELSE Ok(GzipCompress(JsonDumps(delta_data), mtime))

\* compress_delta(delta_data), gzip reading the wall clock at mtime: the
\* encoded bytes, or the RuntimeError that wraps any failure.
compress_delta(delta_data, mtime) ==
    IF ~delta_data.serializable THEN Err("RuntimeError")
    ELSE Ok(B64Encode(GzipCompress(JsonDumps(delta_data), mtime)))

\* A wrong chunk count: floor division plus one.
TotalChunks_FloorPlusOne(len, chunk_size) == PyFloorDiv(len, chunk_size) + 1

\* total_chunks = (len(payload) + self.chunk_size - 1) // self.chunk_size
TotalChunks(len, chunk_size) == PyFloorDiv(len + chunk_size - 1, chunk_size)

\* A wrong slice: every chunk runs one byte into the next.
ChunkAt_Overlap(payload, chunk_size, i) ==
    LET start_idx  == i * chunk_size
        end_idx    == Min(start_idx + chunk_size + 1, Len(payload))
        chunk_data == Slice(payload, start_idx, end_idx)
    IN  << i, chunk_data, ChunkHash(chunk_data) >>

\* The tuple (i, chunk_data, chunk_hash) that loop index i appends.
ChunkAt(payload, chunk_size, i) ==
    LET start_idx  == i * chunk_size
        end_idx    == Min(start_idx + chunk_size, Len(payload))
        chunk_data == Slice(payload, start_idx, end_idx)
    IN  << i, chunk_data, ChunkHash(chunk_data) >>

\* chunk_payload(payload) of a generator with this chunk_size: the list of
\* chunks, or the ZeroDivisionError of chunk_size 0.  range(total_chunks) is
\* empty for a negative total_chunks.
chunk_payload(payload, chunk_size) ==
    IF chunk_size = 0 THEN Err("ZeroDivisionError")
    ELSE LET total_chunks == TotalChunks(Len(payload), chunk_size)
         IN  IF total_chunks <= 0 THEN Ok(<< >>)
             ELSE Ok([k \in 1..total_chunks |->
                        ChunkAt(payload, chunk_size, k - 1)])

\* A wrong metadata record: total_chunks counts the metadata unit too.
create_chunk_metadata_CountsUnits(chunks, delta_hash, chunk_size, t) ==
    [version      |-> "1.0",
     total_chunks |-> Len(chunks) + 1,
     delta_hash   |-> delta_hash,
     chunk_hashes |-> [k \in 1..Len(chunks) |-> chunks[k][3]],
     generated_at |-> t,
     chunk_size   |-> chunk_size]

\* create_chunk_metadata(chunks, delta_hash), time.time() reading t.
create_chunk_metadata(chunks, delta_hash, chunk_size, t) ==
    [version      |-> "1.0",
     total_chunks |-> Len(chunks),
     delta_hash   |-> delta_hash,
     chunk_hashes |-> [k \in 1..Len(chunks) |-> chunks[k][3]],
     generated_at |-> t,
     chunk_size   |-> chunk_size]

\* create_qr_code(data, chunk_num, total_chunks, metadata): the image, which
\* carries the data in its QR code and "Delta chunk_num/total_chunks" and the
\* metadata line in its header.  The data of a metadata unit is the JSON text
\* of the metadata record, kept here as the record itself (meta holds it).
create_qr_code(data, meta, chunk_num, total_chunks, label) ==
    [data |-> data, meta |-> meta, chunk_num |-> chunk_num,
     total_chunks |-> total_chunks, label |-> label]

\* A file written by generate_qr_sequence: its path
\* {prefix}_{delta_hash}[_meta|_chunk_NNN].{format} and the image saved there.
QrFile(prefix, delta_hash, part, num, image) ==
    [prefix |-> prefix, delta_hash |-> delta_hash, part |-> part, num |-> num,
     image |-> image]

\* The single QR code of a payload that fits one chunk.
SingleFile(prefix, compressed_payload, delta_hash) ==
    QrFile(prefix, delta_hash, "single", 0,
           create_qr_code(compressed_payload, << >>, 1, 1,
                          << "Hash", 0, 0, delta_hash >>))

\* The metadata QR code, generated first.
MetadataFile(prefix, delta_hash, metadata, chunks) ==
    QrFile(prefix, delta_hash, "meta", 0,
           create_qr_code(<< >>, << metadata >>, 0, Len(chunks) + 1,
                          << "Metadata", Len(chunks), 0, << >> >>))

\* A wrong chunk unit: every chunk tagged as the first.
ChunkFile_AllFirst(prefix, delta_hash, chunk, chunks) ==
    QrFile(prefix, delta_hash, "chunk", chunk[1] + 1,
           create_qr_code(chunk[2], << >>, 1, Len(chunks),
                          << "Chunk", 1, Len(chunks), chunk[3] >>))

\* The QR code of one chunk (chunk_idx, chunk_data, chunk_hash).
ChunkFile(prefix, delta_hash, chunk, chunks) ==
    QrFile(prefix, delta_hash, "chunk", chunk[1] + 1,
           create_qr_code(chunk[2], << >>, chunk[1] + 1, Len(chunks),
                          << "Chunk", chunk[1] + 1, Len(chunks), chunk[3] >>))

\* A wrong boundary: a payload of exactly chunk_size bytes is chunked.
FitsSingleQr_Strict(compressed_payload, chunk_size) ==
    Len(compressed_payload) < chunk_size

\* "if len(compressed_payload) <= self.chunk_size": a single QR code.
FitsSingleQr(compressed_payload, chunk_size) ==
    Len(compressed_payload) <= chunk_size

\* What generate_qr_sequence has computed when it starts saving files: the
\* error raised before that (if any), the compressed payload and its hash,
\* the chunks and the metadata (multi-chunk path), and the files it is about
\* to save, in order.
Prepared(err, compressed, delta_hash, chunks, metadata, files) ==
    [err |-> err, compressed |-> compressed, delta_hash |-> delta_hash,
     chunks |-> chunks, metadata |-> metadata, files |-> files]

\* generate_qr_sequence up to its first save: steps 1 to 3.  gzip reads the
\* clock at tGzip and create_chunk_metadata at tMeta.
Prepare(chunk_size, delta_data, prefix, tGzip, tMeta) ==
    LET c == compress_delta(delta_data, tGzip)
    IN  IF ~c.ok
        THEN Prepared(c.err, << >>, << >>, << >>, << >>, << >>)
        ELSE
        LET compressed_payload == c.val
            delta_hash         == DeltaHash(compressed_payload)
        IN  IF FitsSingleQr(compressed_payload, chunk_size)
            THEN Prepared("", compressed_payload, delta_hash, << >>, << >>,
                          << SingleFile(prefix, compressed_payload, delta_hash) >>)
            ELSE
            LET ch == chunk_payload(compressed_payload, chunk_size)
            IN  IF ~ch.ok
                THEN Prepared(ch.err, compressed_payload, delta_hash, << >>, << >>, << >>)
                ELSE
                LET chunks   == ch.val
                    metadata == create_chunk_metadata(chunks, delta_hash, chunk_size, tMeta)
                IN  Prepared("", compressed_payload, delta_hash, chunks, << metadata >>,
                        << MetadataFile(prefix, delta_hash, metadata, chunks) >>
                           \o [k \in 1..Len(chunks) |->
                                  ChunkFile(prefix, delta_hash, chunks[k], chunks)])

\* What a call of generate_qr_sequence leaves behind: whether it returned, the
\* error it raised otherwise, the list it returned, self.generated_files after
\* it, and the values it computed on the way.
Outcome(ok, err, returned, generated_files, p) ==
    [ok |-> ok, err |-> err, returned |-> returned,
     generated_files |-> generated_files, compressed |-> p.compressed,
     delta_hash |-> p.delta_hash, chunks |-> p.chunks, metadata |-> p.metadata]

\* A wrong bookkeeping: the metadata file is saved and returned, but not
\* appended to self.generated_files.
SaveFiles_ForgetsMetadata(p, generated_files, saves) ==
    IF p.err # "" THEN Outcome(FALSE, p.err, << >>, generated_files, p)
    ELSE IF saves < Len(p.files)
    THEN Outcome(FALSE, "OSError", << >>,
                 generated_files \o SubSeq(p.files, 1, saves), p)
    ELSE Outcome(TRUE, "", p.files,
                 generated_files \o (IF Len(p.files) > 1 THEN Tail(p.files)
                                     ELSE p.files), p)

\* The saves of generate_qr_sequence: each file is saved and appended to
\* self.generated_files in turn; saves is the number of Image.save calls the
\* file system lets succeed before one raises OSError.
SaveFiles(p, generated_files, saves) ==
    IF p.err # "" THEN Outcome(FALSE, p.err, << >>, generated_files, p)
    ELSE IF saves < Len(p.files)
    THEN Outcome(FALSE, "OSError", << >>,
                 generated_files \o SubSeq(p.files, 1, saves), p)
    ELSE Outcome(TRUE, "", p.files, generated_files \o p.files, p)

\* generate_qr_sequence(delta_data, output_path, filename_prefix) on a
\* generator with this chunk_size and generated_files.
generate_qr_sequence(chunk_size, generated_files, delta_data, prefix, tGzip, tMeta, saves) ==
    SaveFiles(Prepare(chunk_size, delta_data, prefix, tGzip, tMeta),
              generated_files, saves)

\* ------------------------------------------------------------- Assembler

\* The chunk bytes held for the indices lo..hi, joined in index order.
RECURSIVE ConcatByIndex(_, _, _)
ConcatByIndex(received, lo, hi) ==
    IF lo > hi THEN << >>
    ELSE IF lo = hi THEN received[lo]
    ELSE LET mid == (lo + hi) \div 2
         IN  ConcatByIndex(received, lo, mid) \o ConcatByIndex(received, mid + 1, hi)

\* Reverse the encoding, decompress, deserialize.
Decode(buffer) ==
    LET z == B64Decode(buffer)
    IN  IF ~z.ok THEN Err("DecodeError")
        ELSE LET j == GzipDecompress(z.val)
             IN  IF ~j.ok THEN Err("DecodeError")
                 ELSE LET p == JsonLoads(j.val)
                      IN  IF p.ok THEN Ok(<< p.val >>) ELSE Err("DecodeError")

\* A reconstruction session: its state, the Metadata it holds (none or one),
\* the chunks buffered before the Metadata came, the verified chunks by
\* index, the indices whose last scan failed verification, the reason of a
\* failure and the reconstructed payload (none or one).
AsmState(state, meta, pending, received, mismatch, reason, payload) ==
    [state |-> state, meta |-> meta, pending |-> pending, received |-> received,
     mismatch |-> mismatch, reason |-> reason, payload |-> payload]

AsmInit == AsmState("AwaitingMetadata", << >>, << >>, << >>, {}, "", << >>)

AsmFailed(a, reason) == [a EXCEPT !.state = "Failed", !.reason = reason]

\* Completion: every index 0..totalChunks-1 is verified; join them, check the
\* buffer hash, decode.
AsmFinish(a) ==
    LET m      == a.meta[1]
        buffer == ConcatByIndex(a.received, 0, m.total_chunks - 1)
    IN  IF DeltaHash(buffer) # m.delta_hash THEN AsmFailed(a, "ChunkSetInconsistent")
        ELSE LET p == Decode(buffer)
             IN  IF p.ok THEN [a EXCEPT !.state = "Complete", !.payload = p.val]
                 ELSE AsmFailed(a, "DecodeError")

AsmFinishIfComplete(a) ==
    IF DOMAIN a.received = 0..(a.meta[1].total_chunks - 1) THEN AsmFinish(a) ELSE a

\* The pending chunks a newly arrived Metadata m verifies, and those it rejects.
Verified(m, pending) ==
    {i \in DOMAIN pending :
        i < m.total_chunks /\ ChunkHash(pending[i]) = m.chunk_hashes[i + 1]}

\* A Metadata unit arrives.
AsmMetadata(a, m) ==
    IF a.meta # << >>
    THEN (IF a.meta[1] = m THEN a ELSE AsmFailed(a, "ConflictingMetadata"))
    ELSE LET good == Verified(m, a.pending)
         IN  AsmFinishIfComplete(
                 [a EXCEPT !.state    = "Collecting",
                           !.meta     = << m >>,
                           !.pending  = << >>,
                           !.received = [i \in good |-> a.pending[i]],
                           !.mismatch = DOMAIN a.pending \ good])

\* A Chunk unit arrives with index i (its sequence tag less one).
AsmChunk(a, i, bytes) ==
    IF a.meta = << >>
    THEN [a EXCEPT !.pending = (i :> bytes) @@ a.pending]
    ELSE LET m == a.meta[1]
         IN  IF i \in DOMAIN a.received THEN a
             ELSE IF i >= 0 /\ i < m.total_chunks
                     /\ ChunkHash(bytes) = m.chunk_hashes[i + 1]
             THEN AsmFinishIfComplete(
                      [a EXCEPT !.received = (i :> bytes) @@ a.received,
                                !.mismatch = a.mismatch \ {i}])
             ELSE [a EXCEPT !.mismatch = a.mismatch \cup {i}]

\* The single-unit fast path: the unit's bytes are decoded directly.
AsmSingle(a, bytes) ==
    LET p == Decode(bytes)
    IN  IF p.ok THEN [a EXCEPT !.state = "Complete", !.payload = p.val]
        ELSE AsmFailed(a, "DecodeError")

\* One scanned unit (the image of a generated file) is presented.  A finished
\* session takes no more units.
AsmReceive(a, image) ==
    IF a.state \in {"Complete", "Failed"} THEN a
    ELSE IF image.meta # << >> THEN AsmMetadata(a, image.meta[1])
    ELSE IF image.chunk_num = 1 /\ image.total_chunks = 1 /\ a.meta = << >>
              /\ a.pending = << >>
    THEN AsmSingle(a, image.data)
    ELSE AsmChunk(a, image.chunk_num - 1, image.data)

\* ---------------------------------------------------------------- inputs

\* The payloads of the delta files: {}, {"a":1}, {"a":1,"b":12}.
Payloads ==
    { Dict(<< >>), Dict(<< <<97, 1>> >>), Dict(<< <<97, 1>>, <<98, 12>> >>) }

\* The payloads a caller can hand generate_qr_sequence: those, and a value
\* json.dumps cannot serialize.
ApiPayloads == Payloads \cup { Unserializable }

\* A file of the input: unreadable (missing, or not JSON), or a JSON document.
DeltaFile(readable, delta) == [readable |-> readable, delta |-> delta]

DeltaFiles ==
    { DeltaFile(FALSE, Dict(<< >>)) } \cup { DeltaFile(TRUE, p) : p \in Payloads }

\* The file lists of at most n files.
FileLists(n) == UNION { [1..k -> DeltaFiles] : k \in 0..n }

\* The values of --chunk-size: invalid ones, sizes around the lengths 36, 40
\* and 52 of the compressed payloads, the default, and one above the limit.
ChunkSizes ==
    { 0 - 1, 0, 12, 35, 36, 39, 40, DEFAULT_CHUNK_SIZE, QrCapacityLimit + 1 }

\* Byte strings of at most n bytes over two letters.
ByteStrings(n) == UNION { [1..k -> {65, 66}] : k \in 0..n }

\* The buffers chunk_payload is applied to directly, and the chunk sizes.
Buffers ==
    ByteStrings(MaxBufLen) \cup { compress_delta(p, 0).val : p \in Payloads }

ChunkerSizes == ((0 - 1)..MaxChunk) \cup ChunkSizes

\* Prepare on the inputs main() can hand it, each value computed once.
PrepareTable ==
    [c \in ChunkSizes, p \in ApiPayloads, prefix \in 0..MaxFiles,
     tGzip \in 0..MaxTime, tMeta \in 0..MaxTime |->
        Prepare(c, p, prefix, tGzip, tMeta)]

\* ------------------------------------------------------------------ state

VARIABLES
    args,        \* the parsed command line: chunk_size, mode, files
    pc,          \* where main() is
    idx,         \* batch mode: the number of delta_files the loop has taken
    now,         \* the wall clock, in seconds
    stdout,      \* the lines main() has printed
    generator,   \* the DeltaQRGenerator: chunk_size, generated_files
    calls,       \* the calls of generate_qr_sequence so far, with their outcome
    call,        \* a direct call of chunk_payload: its arguments and result
    asm,         \* the receiver's reconstruction session
    order,       \* the generated files the receiver has scanned, by first scan
    rescans      \* the number of scans of a file scanned before

vars == << args, pc, idx, now, stdout, generator, calls, call, asm, order, rescans >>

NoGenerator == [constructed |-> FALSE, chunk_size |-> 0, generated_files |-> << >>]

NoCall == [payload |-> << >>, chunk_size |-> 1, done |-> FALSE, result |-> Err("")]

Line(text, n) == [text |-> text, n |-> n]

\* parser.parse_args(): --input FILE or --batch DIR, and --chunk-size.
Args(chunk_size, mode, files) ==
    [chunk_size |-> chunk_size, mode |-> mode, files |-> files]

ArgsSet ==
    { Args(c, "input", << f >>) : c \in ChunkSizes, f \in DeltaFiles }
        \cup { Args(c, "batch", fs) : c \in ChunkSizes, fs \in FileLists(MaxFiles) }

MainInit(a) ==
    /\ args = a
    /\ pc = "start"
    /\ idx = 0
    /\ now = 0
    /\ stdout = << >>
    /\ generator = NoGenerator
    /\ calls = << >>
    /\ call = NoCall
    /\ asm = AsmInit
    /\ order = << >>
    /\ rescans = 0

Init == \E a \in ArgsSet : MainInit(a)

\* ------------------------------------------------------------------- main

\* The wall clock advances while main() runs.
Tick ==
    /\ pc \in {"start", "input", "batch", "loop"}
    /\ now < MaxTime
    /\ now' = now + 1
    /\ UNCHANGED << args, pc, idx, stdout, generator, calls, call, asm, order, rescans >>

\* A wrong main(): a chunk size above the limit is an error.
Start_RejectsLargeChunk ==
    /\ pc = "start"
    /\ IF args.chunk_size > QrCapacityLimit
       THEN /\ stdout' = << Line("Error: Chunk size > 3KB", 0) >>
            /\ generator' = generator
            /\ pc' = "exit1"
       ELSE /\ stdout' = << >>
            /\ generator' = [constructed |-> TRUE, chunk_size |-> args.chunk_size,
                             generated_files |-> << >>]
            /\ pc' = args.mode
    /\ UNCHANGED << args, idx, now, calls, call, asm, order, rescans >>

\* main() up to the try block: the chunk size warning, the output directory,
\* DeltaQRGenerator(args.chunk_size, args.format).
Start ==
    /\ pc = "start"
    /\ stdout' = IF args.chunk_size > QrCapacityLimit
                 THEN << Line("Warning: Chunk size > 3KB", 0) >> ELSE << >>
    /\ generator' = [constructed |-> TRUE, chunk_size |-> args.chunk_size,
                     generated_files |-> << >>]
    /\ pc' = args.mode
    /\ UNCHANGED << args, idx, now, calls, call, asm, order, rescans >>

\* load_delta_file, then generator.generate_qr_sequence on file number i with
\* filename prefix number prefix; next is where main() goes when both return.
\* Any exception ends main() in its handler: "Error: ...", sys.exit(1).
ProcessFile(i, prefix, next, summary) ==
    LET f == args.files[i]
    IN  IF ~f.readable
        THEN /\ stdout' = Append(stdout, Line("Error: Failed to load delta file", i))
             /\ pc' = "exit1"
             /\ UNCHANGED << generator, calls, now >>
        ELSE \E tMeta \in now..Min(now + 1, MaxTime) :
             LET p == PrepareTable[generator.chunk_size, f.delta, prefix, now, tMeta]
             IN  \E saves \in 0..Len(p.files) :
                LET out == SaveFiles(p, generator.generated_files, saves)
                IN  /\ generator' = [generator EXCEPT
                                        !.generated_files = out.generated_files]
                    /\ calls' = Append(calls,
                                  [delta_data |-> f.delta, prefix |-> prefix,
                                   chunk_size |-> generator.chunk_size,
                                   before |-> generator.generated_files,
                                   tGzip |-> now, out |-> out])
                    /\ now' = IF out.metadata = << >> THEN now ELSE tMeta
                    /\ IF out.ok
                       THEN /\ pc' = next
                            /\ stdout' =
                                 IF summary
                                 THEN Append(stdout,
                                        Line("Generated QR code files",
                                             Len(out.generated_files)))
                                 ELSE stdout
                       ELSE /\ pc' = "exit1"
                            /\ stdout' = Append(stdout, Line("Error", i))

\* --input: the single file, then the summary.
ProcessInput ==
    /\ pc = "input"
    /\ ProcessFile(1, 0, "done", TRUE)
    /\ UNCHANGED << args, idx, call, asm, order, rescans >>

\* --batch: delta_files = list(args.batch.glob("*.json")); none: return.
ListBatch ==
    /\ pc = "batch"
    /\ IF args.files = << >>
       THEN /\ stdout' = Append(stdout, Line("No JSON files found", 0))
            /\ pc' = "returned"
       ELSE /\ stdout' = Append(stdout, Line("Processing delta files", Len(args.files)))
            /\ pc' = "loop"
    /\ UNCHANGED << args, idx, now, generator, calls, call, asm, order, rescans >>

\* One iteration of "for delta_file in delta_files"; the prefix is
\* {args.prefix}_{delta_file.stem}.
BatchFile ==
    /\ pc = "loop"
    /\ idx < Len(args.files)
    /\ ProcessFile(idx + 1, idx + 1, "loop", FALSE)
    /\ idx' = idx + 1
    /\ UNCHANGED << args, call, asm, order, rescans >>

\* The loop is over: the summary.
BatchDone ==
    /\ pc = "loop"
    /\ idx = Len(args.files)
    /\ stdout' = Append(stdout, Line("Generated QR code files",
                                     Len(generator.generated_files)))
    /\ pc' = "done"
    /\ UNCHANGED << args, idx, now, generator, calls, call, asm, order, rescans >>

Next == Tick \/ Start \/ ProcessInput \/ ListBatch \/ BatchFile \/ BatchDone

Spec == Init /\ [][Next]_vars

\* ------------------------------------------------- chunk_payload, directly

\* A generator with any chunk size is handed any buffer.
InitChunker ==
    /\ \E b \in Buffers : \E c \in ChunkerSizes :
          call = [payload |-> b, chunk_size |-> c, done |-> FALSE, result |-> Err("")]
    /\ args = Args(1, "none", << >>)
    /\ pc = "chunker"
    /\ idx = 0
    /\ now = 0
    /\ stdout = << >>
    /\ generator = NoGenerator
    /\ calls = << >>
    /\ asm = AsmInit
    /\ order = << >>
    /\ rescans = 0

ChunkPayloadCall ==
    /\ pc = "chunker"
    /\ ~call.done
    /\ call' = [call EXCEPT !.done = TRUE,
                            !.result = chunk_payload(call.payload, call.chunk_size)]
    /\ UNCHANGED << args, pc, idx, now, stdout, generator, calls, asm, order, rescans >>

NextChunker == ChunkPayloadCall

SpecChunker == InitChunker /\ [][NextChunker]_vars

\* ------------------------------------------ generate_qr_sequence, directly

\* A generator with any chunk size, as DeltaQRGenerator(chunk_size) leaves it.
InitGenerator ==
    /\ \E c \in ChunkSizes :
          generator = [constructed |-> TRUE, chunk_size |-> c,
                       generated_files |-> << >>]
    /\ args = Args(1, "none", << >>)
    /\ pc = "api"
    /\ idx = 0
    /\ now = 0
    /\ stdout = << >>
    /\ calls = << >>
    /\ call = NoCall
    /\ asm = AsmInit
    /\ order = << >>
    /\ rescans = 0

\* A caller hands the generator a payload: one call of
\* generator.generate_qr_sequence(delta_data, output_path, prefix).  The
\* caller catches what the call raises and may call again.
GenerateCall ==
    /\ pc = "api"
    /\ Len(calls) < MaxFiles
    /\ \E delta_data \in ApiPayloads : \E tMeta \in now..Min(now + 1, MaxTime) :
          LET prefix == Len(calls) + 1
              p == PrepareTable[generator.chunk_size, delta_data, prefix, now, tMeta]
          IN  \E saves \in 0..Len(p.files) :
                LET out == SaveFiles(p, generator.generated_files, saves)
                IN  /\ generator' = [generator EXCEPT
                                        !.generated_files = out.generated_files]
                    /\ calls' = Append(calls,
                                  [delta_data |-> delta_data, prefix |-> prefix,
                                   chunk_size |-> generator.chunk_size,
                                   before |-> generator.generated_files,
                                   tGzip |-> now, out |-> out])
                    /\ now' = IF out.metadata = << >> THEN now ELSE tMeta
    /\ UNCHANGED << args, pc, idx, stdout, call, asm, order, rescans >>

NextGenerator == GenerateCall

SpecGenerator == InitGenerator /\ [][NextGenerator]_vars

\* ------------------------------------------------- generate, then assemble

\* One delta file is turned into QR codes (--input), and a receiver scans
\* the generated files in any order, any number of times.
InitAssembler ==
    \E c \in ChunkSizes : \E p \in Payloads :
        MainInit(Args(c, "input", << DeltaFile(TRUE, p) >>))

Scanned(k) == \E n \in 1..Len(order) : order[n] = k

Scan ==
    /\ pc = "done"
    /\ \E k \in 1..Len(generator.generated_files) :
          /\ Scanned(k) => rescans < MaxRescans
          /\ asm' = AsmReceive(asm, generator.generated_files[k].image)
          /\ order' = IF Scanned(k) THEN order ELSE Append(order, k)
          /\ rescans' = IF Scanned(k) THEN rescans + 1 ELSE rescans
    /\ UNCHANGED << args, pc, idx, now, stdout, generator, calls, call >>

NextAssembler == Tick \/ Start \/ ProcessInput \/ Scan

SpecAssembler == InitAssembler /\ [][NextAssembler]_vars

\* ------------------------------------------------------------ properties

\* The bytes of the chunks lo..hi of a chunk list, joined in list order.
RECURSIVE ConcatChunks(_, _, _)
ConcatChunks(chunks, lo, hi) ==
    IF lo > hi THEN << >>
    ELSE IF lo = hi THEN chunks[lo][2]
    ELSE LET mid == (lo + hi) \div 2
         IN  ConcatChunks(chunks, lo, mid) \o ConcatChunks(chunks, mid + 1, hi)

\* ceil(len / size) for size >= 1.
CeilDiv(len, size) == IF len % size = 0 THEN len \div size ELSE len \div size + 1

\* The bytes buffer[from .. to) (0-based, to exclusive), for 0 <= from.
BytesBetween(buffer, from, to) ==
    IF to <= from THEN << >> ELSE [j \in 1..(to - from) |-> buffer[from + j]]

\* The latest call of generate_qr_sequence.  Every call is the latest one in
\* the state it leaves behind, so what holds of the latest call in every
\* reachable state holds of every call.
HasCall == calls # << >>

LastCall == calls[Len(calls)]

\* C1: for every buffer of length L and every chunk size S >= 1, entry i of
\* the list chunk_payload returns has index i and holds exactly the bytes
\* buffer[i*S .. min((i+1)*S, L)), and the chunk bytes joined in index order
\* are the buffer.
C1_ChunksAreTheSlices ==
    (call.done /\ call.chunk_size >= 1) =>
        LET S      == call.chunk_size
            L      == Len(call.payload)
            chunks == call.result.val
        IN  /\ call.result.ok
            /\ \A k \in 1..Len(chunks) :
                  /\ chunks[k][1] = k - 1
                  /\ chunks[k][2] =
                        BytesBetween(call.payload, (k - 1) * S, Min(k * S, L))
            /\ ConcatChunks(chunks, 1, Len(chunks)) = call.payload

\* A buffer cut into at least three chunks, the last one shorter.
C1_Witness ==
    /\ call.done
    /\ call.chunk_size >= 1
    /\ call.result.ok
    /\ Len(call.result.val) >= 3
    /\ Len(call.payload) % call.chunk_size # 0

\* C2: for a buffer of length L and a chunk size S >= 1, chunk_payload
\* returns exactly ceil(L/S) chunks; each but the last has length S, and the
\* last has length L - (ceil(L/S)-1)*S, between 1 and S: no chunk is empty.
C2_ChunkCountAndLengths ==
    (call.done /\ call.chunk_size >= 1) =>
        LET S      == call.chunk_size
            L      == Len(call.payload)
            chunks == call.result.val
            N      == Len(chunks)
        IN  /\ call.result.ok
            /\ N = CeilDiv(L, S)
            /\ \A k \in 1..(N - 1) : Len(chunks[k][2]) = S
            /\ N >= 1 =>
                  /\ Len(chunks[N][2]) = L - (CeilDiv(L, S) - 1) * S
                  /\ Len(chunks[N][2]) >= 1
                  /\ Len(chunks[N][2]) <= S

\* A buffer whose length is a multiple of the chunk size, in several chunks.
C2_Witness ==
    /\ call.done
    /\ call.chunk_size >= 1
    /\ call.result.ok
    /\ Len(call.payload) % call.chunk_size = 0
    /\ Len(call.result.val) >= 2

\* C3: in the metadata record generate_qr_sequence builds, chunk_hashes has
\* total_chunks entries, entry i is the chunk hash of the bytes of chunk i,
\* delta_hash is the buffer hash of the whole compressed payload, and
\* chunk_size is the generator's chunk size.
C3_MetadataMatchesChunks ==
    (HasCall /\ LastCall.out.metadata # << >>) =>
        LET out == LastCall.out
            m   == out.metadata[1]
        IN  /\ Len(m.chunk_hashes) = m.total_chunks
            /\ m.total_chunks = Len(out.chunks)
            /\ \A k \in 1..Len(out.chunks) :
                  /\ m.chunk_hashes[k] = ChunkHash(out.chunks[k][2])
                  /\ out.ok => out.returned[k + 1].image.data = out.chunks[k][2]
            /\ m.delta_hash = DeltaHash(out.compressed)
            /\ m.chunk_size = generator.chunk_size

\* A metadata record of at least three chunks, all files saved.
C3_Witness ==
    /\ HasCall
    /\ LastCall.out.ok
    /\ LastCall.out.metadata # << >>
    /\ LastCall.out.metadata[1].total_chunks >= 3

\* C4: generate_qr_sequence takes the single-unit path exactly when the
\* compressed payload is no longer than chunk_size: then it returns one unit
\* that carries the whole buffer, tagged (1,1), and builds no metadata; a
\* longer payload gets a metadata unit first, and one of chunk_size + 1 bytes
\* (chunk_size >= 1) a metadata unit and exactly 2 chunk units.
C4_FastPathBoundary ==
    (HasCall /\ LastCall.out.ok) =>
        LET out == LastCall.out
            L   == Len(out.compressed)
            S   == LastCall.chunk_size
        IN  /\ L <= S =>
                  /\ Len(out.returned) = 1
                  /\ out.returned[1].image.data = out.compressed
                  /\ out.returned[1].image.chunk_num = 1
                  /\ out.returned[1].image.total_chunks = 1
                  /\ out.returned[1].image.meta = << >>
                  /\ out.metadata = << >>
            /\ L > S =>
                  /\ out.metadata # << >>
                  /\ Len(out.returned) >= 1
                  /\ out.returned[1].image.meta = out.metadata
                  /\ \A k \in 2..Len(out.returned) :
                        out.returned[k].image.meta = << >>
            /\ (S >= 1 /\ L = S + 1) =>
                  /\ Len(out.returned) = 3
                  /\ Len(out.chunks) = 2

\* A payload one byte longer than the chunk size, in a metadata unit and two
\* chunk units.
C4_Witness ==
    /\ HasCall
    /\ LastCall.out.ok
    /\ LastCall.chunk_size >= 1
    /\ Len(LastCall.out.compressed) = LastCall.chunk_size + 1
    /\ Len(LastCall.out.returned) = 3

\* A payload of exactly chunk_size bytes, in a single unit.
C4_WitnessSingle ==
    /\ HasCall
    /\ LastCall.out.ok
    /\ Len(LastCall.out.compressed) = LastCall.chunk_size
    /\ Len(LastCall.out.returned) = 1

\* C5: on the multi-unit path with N chunks the returned list has N+1
\* entries: the metadata unit first, tagged (0, N+1), then chunk i as the
\* unit tagged (i+1, N+1) for i in 0..N-1 in chunk order, so that every unit
\* of the sequence carries the same total N+1.
C5_UnitTags ==
    (HasCall /\ LastCall.out.ok /\ LastCall.out.metadata # << >>) =>
        LET out == LastCall.out
            N   == Len(out.chunks)
        IN  /\ Len(out.returned) = N + 1
            /\ out.returned[1].image.meta = out.metadata
            /\ out.returned[1].image.chunk_num = 0
            /\ out.returned[1].image.total_chunks = N + 1
            /\ \A i \in 0..(N - 1) :
                  /\ out.returned[i + 2].image.data = out.chunks[i + 1][2]
                  /\ out.returned[i + 2].image.chunk_num = i + 1
                  /\ out.returned[i + 2].image.total_chunks = N + 1

\* The units of a list of generated files presented once each, in list
\* order, to a fresh session: the session after the first n of them.
RECURSIVE AssembleFirst(_, _)
AssembleFirst(files, n) ==
    IF n = 0 THEN AsmInit
    ELSE AsmReceive(AssembleFirst(files, n - 1), files[n].image)

Assemble(files) == AssembleFirst(files, Len(files))

\* C6: round trip.  For a payload P and a chunk size >= 1, assembling the
\* units generate_qr_sequence returned for P, in emission order (chunks
\* verified against the declared hashes, joined by index, the buffer hash
\* verified, base64 reversed, decompressed, deserialized), yields exactly P.
\* (The calls do not change while the receiver scans, so the state in which
\* nothing is scanned yet decides it.)
C6_RoundTrip ==
    (HasCall /\ LastCall.out.ok /\ LastCall.chunk_size >= 1 /\ order = << >>) =>
        LET a == Assemble(LastCall.out.returned)
        IN  /\ a.state = "Complete"
            /\ a.payload = << LastCall.delta_data >>

\* A payload of several chunks, scanned in emission order and reconstructed.
C6_Witness ==
    /\ HasCall
    /\ LastCall.out.ok
    /\ Len(LastCall.out.returned) >= 4
    /\ order = [k \in 1..Len(LastCall.out.returned) |-> k]
    /\ asm.state = "Complete"
    /\ asm.payload = << LastCall.delta_data >>

\* C7: order independence and idempotence.  The units of a multi-chunk
\* sequence presented in any order, already presented units repeated, never
\* fail the session; once each has been presented the session is Complete
\* with the payload that presenting them once each in emission order gives;
\* and presenting an already presented unit again changes nothing.
C7_AnyOrderAnyRepeats ==
    (pc = "done" /\ generator.chunk_size >= 1
        /\ Len(generator.generated_files) >= 2) =>
        LET files == generator.generated_files
        IN  /\ asm.state # "Failed"
            /\ Len(order) = Len(files) =>
                  /\ asm.state = "Complete"
                  /\ asm.payload = Assemble(files).payload
                  /\ asm.payload = << LastCall.delta_data >>
            /\ \A n \in 1..Len(order) :
                  AsmReceive(asm, files[order[n]].image) = asm

\* Every unit presented, the last chunk first and the metadata last, one
\* unit twice: the session is complete.
C7_Witness ==
    /\ pc = "done"
    /\ generator.chunk_size >= 1
    /\ Len(generator.generated_files) >= 4
    /\ Len(order) = Len(generator.generated_files)
    /\ order[1] = Len(generator.generated_files)
    /\ order[Len(order)] = 1
    /\ rescans >= 1
    /\ asm.state = "Complete"

\* A metadata record with its creation time removed.
Undated(metadata) ==
    [k \in 1..Len(metadata) |-> [metadata[k] EXCEPT !.generated_at = 0]]

\* C8: two runs of generate_qr_sequence over the identical payload, with the
\* same chunk size, at whatever wall clock times, produce the same
\* delta_hash, the same chunks (bytes and hashes) and metadata that differ in
\* generated_at at most.
C8_SameHashesAtAnyTime ==
    \A i, j \in 1..Len(calls) :
        (/\ calls[i].delta_data = calls[j].delta_data
         /\ calls[i].chunk_size = calls[j].chunk_size
         /\ calls[i].out.compressed # << >>
         /\ calls[j].out.compressed # << >>) =>
            /\ calls[i].out.delta_hash = calls[j].out.delta_hash
            /\ calls[i].out.chunks = calls[j].out.chunks
            /\ Undated(calls[i].out.metadata) = Undated(calls[j].out.metadata)

\* main() has ended: normally, by its early return, or by sys.exit(1).
Ended == pc \in {"done", "returned", "exit1"}

\* C9: in batch mode a failure on one file (load, compression or save) does
\* not abort the batch: when main() ends, generate_qr_sequence has been
\* called for every readable file of the directory.
C9_BatchIsolation ==
    (args.mode = "batch" /\ Ended) =>
        \A i \in 1..Len(args.files) :
            args.files[i].readable =>
                \E k \in 1..Len(calls) : calls[k].prefix = i

\* C10: a chunk size above the limit of 3000 is a warning, not a failure:
\* main() prints the warning first, constructs the generator with that chunk
\* size and goes on; it ends with an error only for a file it cannot load or
\* save, and every call returns the files a run with a chunk size below the
\* limit (the default) returns for a payload that fits both.
C10_LargeChunkSizeOnlyWarns ==
    (pc # "start" /\ args.chunk_size > QrCapacityLimit) =>
        /\ Len(stdout) >= 1
        /\ stdout[1] = Line("Warning: Chunk size > 3KB", 0)
        /\ generator.constructed
        /\ generator.chunk_size = args.chunk_size
        /\ pc = "exit1" =>
              \/ (HasCall /\ LastCall.out.err = "OSError"
                     /\ stdout[Len(stdout)].text = "Error")
              \/ stdout[Len(stdout)].text = "Error: Failed to load delta file"
        /\ \A k \in 1..Len(calls) :
              LET c == calls[k]
              IN  /\ c.chunk_size = args.chunk_size
                  /\ (c.out.ok /\ Len(c.out.compressed) <= DEFAULT_CHUNK_SIZE) =>
                        c.out.returned =
                            PrepareTable[DEFAULT_CHUNK_SIZE, c.delta_data,
                                         c.prefix, c.tGzip, c.tGzip].files

\* A batch of two files turned into QR codes with a chunk size above the
\* limit.
C10_Witness ==
    /\ pc = "done"
    /\ args.chunk_size > QrCapacityLimit
    /\ args.mode = "batch"
    /\ Len(calls) = 2
    /\ Len(generator.generated_files) = 2

\* C11: a chunk size below 1 is a failure of the chunker.  For a non-empty
\* buffer, generate_qr_sequence with chunk_size < 1 ends in an error and
\* returns no unit, no chunk list and no metadata record (never a metadata
\* unit declaring 0 chunks), and chunk_payload applied to that buffer with
\* that chunk size ends in an error as well.
C11_InvalidChunkSizeFails ==
    \A k \in 1..Len(calls) :
        (calls[k].chunk_size < 1 /\ calls[k].out.compressed # << >>) =>
            /\ ~calls[k].out.ok
            /\ calls[k].out.returned = << >>
            /\ calls[k].out.chunks = << >>
            /\ calls[k].out.metadata = << >>
            /\ ~chunk_payload(calls[k].out.compressed, calls[k].chunk_size).ok

\* C12: when compression of the payload fails, generate_qr_sequence raises
\* the error to its caller, has computed no payload, chunk or metadata,
\* returns no unit (no single QR code, no metadata QR code, no chunk QR code)
\* and leaves self.generated_files as it was before the call.
C12_CompressionFailureEmitsNothing ==
    \A k \in 1..Len(calls) :
        ~calls[k].delta_data.serializable =>
            /\ ~calls[k].out.ok
            /\ calls[k].out.err = "RuntimeError"
            /\ calls[k].out.returned = << >>
            /\ calls[k].out.compressed = << >>
            /\ calls[k].out.chunks = << >>
            /\ calls[k].out.metadata = << >>
            /\ calls[k].out.generated_files = calls[k].before
            /\ k = Len(calls) => generator.generated_files = calls[k].before

\* A call that emitted a metadata QR code and its chunks, then a call whose
\* payload cannot be serialized: the generator holds the files of the first.
C12_Witness ==
    /\ Len(calls) = 2
    /\ calls[1].out.ok
    /\ Len(calls[1].out.returned) >= 3
    /\ ~calls[2].delta_data.serializable
    /\ ~calls[2].out.ok
    /\ generator.generated_files = calls[1].out.returned

\* The lists the first k calls returned, joined in call order.
RECURSIVE ConcatReturned(_)
ConcatReturned(k) ==
    IF k = 0 THEN << >> ELSE ConcatReturned(k - 1) \o calls[k].out.returned

\* The units of a call: 1 for a payload in a single unit, N+1 for N chunks.
UnitsOf(c) == IF c.out.metadata = << >> THEN 1 ELSE Len(c.out.chunks) + 1

RECURSIVE TotalUnits(_)
TotalUnits(k) == IF k = 0 THEN 0 ELSE TotalUnits(k - 1) + UnitsOf(calls[k])

\* C13: when every call of generate_qr_sequence on the generator so far has
\* returned normally, self.generated_files is the lists they returned joined
\* in call order, so the count of the summary main() prints is the number of
\* units produced: 1 per single-unit payload, N+1 per payload of N chunks.
C13_GeneratedFilesAreTheReturnedLists ==
    (\A k \in 1..Len(calls) : calls[k].out.ok) =>
        /\ generator.generated_files = ConcatReturned(Len(calls))
        /\ Len(generator.generated_files) = TotalUnits(Len(calls))
        /\ pc = "done" =>
              stdout[Len(stdout)] =
                  Line("Generated QR code files", TotalUnits(Len(calls)))

\* A batch of a single-unit payload and a payload of several chunks, both
\* turned into QR codes, and the summary printed.
C13_Witness ==
    /\ pc = "done"
    /\ Len(calls) = 2
    /\ calls[1].out.ok /\ calls[2].out.ok
    /\ \E i, j \in 1..2 :
          /\ calls[i].out.metadata = << >>
          /\ calls[j].out.metadata # << >> /\ Len(calls[j].out.chunks) >= 2
    /\ stdout[Len(stdout)].n = Len(generator.generated_files)
    /\ Len(generator.generated_files) >= 4

====
